---------------------------- MODULE Spec2Model ----------------------------
(***************************************************************************)
(* A model of pybigint: the decimal digit store BigInt (src/bigint.py) and *)
(* the digit-swap extremal product solver built on it                      *)
(* (src/examples/max_product/max_product.py).                              *)
(*                                                                         *)
(* A digit store is a sequence of cells, least significant first.  Python  *)
(* lists are 0-based and TLA+ sequences 1-based: the cell the code calls   *)
(* _digits[k] is ds[k + 1] here, and every operator below keeps the code's *)
(* 0-based index in its parameters.  An optional argument (int | None) is  *)
(* a sequence of length at most one: << >> is None, <<n>> is n.            *)
(***************************************************************************)
EXTENDS Integers, Sequences, FiniteSets, TLC

VARIABLES
    pc,          \* the program position: the call that produced the state
    self,        \* the digit store the constructor or add_at works on
    before,      \* self as it was when the last call started
    args,        \* the arguments of the last call
    steps,       \* how many calls the carry specification has made
    x, y,        \* the operands of the arithmetic and comparison calls
    result,      \* what the last arithmetic or comparison call returned
    heap,        \* the solver's objects: heap[id] is the digit store of BigInt id
    stack,       \* the frames of calc_extreme_products_brute, innermost last
    ret,         \* the tuple of object ids the last solver call returned
    loop,        \* the locals of the running greedy loop: c, d, i, found_diff
    out          \* the solver's results, by entry point

vars == <<pc, self, before, args, steps, x, y, result, heap, stack, ret, loop, out>>

-----------------------------------------------------------------------------
(* Bounds of the model.                                                    *)

MaxValue == 110          \* constructor and arithmetic inputs are 0..MaxValue
MaxDigitCount == 2       \* digit_count arguments are None or 0..MaxDigitCount
MaxRandomCount == 2      \* BigInt(digit_count=n) is called with n in 0..MaxRandomCount
MaxInitValue == 12       \* the carry specification starts from 0..MaxInitValue
MaxIdx == 2              \* add_at is called with idx in 0..MaxIdx
MaxAmount == 12          \* add_at is called with value in 0..MaxAmount
MaxOperand == 12         \* the carry specification adds and multiplies by 0..MaxOperand
MaxSteps == 2            \* calls per behaviour of the carry specification
MaxCmpLen == 3           \* compared digit stores have at most MaxCmpLen cells
MaxSolverValue == 125    \* the solver's inputs are from_integer of 0..MaxSolverValue

CmpDigits == {0, 1, 5, 9}  \* the cell values of the compared digit stores

None == << >>
Some(n) == <<n>>

-----------------------------------------------------------------------------
(* BigInt: construction.                                                   *)

RECURSIVE NumDigits(_)
(* int(math.log10(value)) + 1 for value > 0: the count of decimal digits.  *)
(* Exact for every value the model draws; the float logarithm rounds up    *)
(* only from 10^15 - 1 on.                                                 *)
NumDigits(value) == IF value < 10 THEN 1 ELSE 1 + NumDigits(value \div 10)

Min(m, n) == IF m < n THEN m ELSE n
Max(m, n) == IF m > n THEN m ELSE n

RECURSIVE AppendDigits(_, _, _)
(* for _ in range(num_dc): digits.append(value % 10); value //= 10         *)
AppendDigits(digits, value, num_dc) ==
    IF num_dc = 0 THEN digits
    ELSE AppendDigits(Append(digits, value % 10), value \div 10, num_dc - 1)

(* BigInt(value=value, digit_count=digit_count), value >= 0.               *)
FromInteger(value, digit_count) ==
    IF value = 0 THEN << >>
    ELSE LET val_dc == NumDigits(value)
             num_dc == IF digit_count = None THEN val_dc
                       ELSE Min(val_dc, digit_count[1])
         IN  AppendDigits(<< >>, value, num_dc)

(* BigInt(digit_count=digit_count): every store the random fill can give,  *)
(* cell i drawn from randint(0 if i < digit_count - 1 else 1, 9).          *)
RandomFills(digit_count) ==
    { ds \in [1..digit_count -> 0..9] : digit_count > 0 => ds[digit_count] >= 1 }

-----------------------------------------------------------------------------
(* BigInt: the carry engine.                                               *)

RECURSIVE Grow(_, _)
(* while idx >= len(self): self._digits.append(0)                          *)
Grow(digits, idx) == IF idx >= Len(digits) THEN Grow(Append(digits, 0), idx) ELSE digits

RECURSIVE AddAtGrowsFirst(_, _, _)
(* add_at with the store grown before the value == 0 return.               *)
AddAtGrowsFirst(digits, idx, value) ==
    LET grown == Grow(digits, idx)
    IN  IF value = 0 THEN grown
        ELSE LET new_val == grown[idx + 1] + value
             IN  AddAtGrowsFirst([grown EXCEPT ![idx + 1] = new_val % 10],
                                 idx + 1, new_val \div 10)

(* add_at without the recursive call that forwards the carry.              *)
AddAtNoCarry(digits, idx, value) ==
    IF value = 0 THEN digits
    ELSE LET grown == Grow(digits, idx)
             new_val == grown[idx + 1] + value
         IN  [grown EXCEPT ![idx + 1] = new_val % 10]

RECURSIVE AddAt(_, _, _)
(* self.add_at(idx, value) for value >= 0: the digit store afterwards.     *)
AddAt(digits, idx, value) ==
    IF value = 0 THEN digits
    ELSE LET grown == Grow(digits, idx)
             new_val == grown[idx + 1] + value
         IN  AddAt([grown EXCEPT ![idx + 1] = new_val % 10], idx + 1, new_val \div 10)

-----------------------------------------------------------------------------
(* BigInt: comparison.                                                     *)

RECURSIVE EqLoop(_, _, _, _)
EqLoop(a, b, i, eq) ==
    IF i >= Len(a) THEN eq
    ELSE LET e == (a[i + 1] = b[i + 1])
         IN  IF ~e THEN e ELSE EqLoop(a, b, i + 1, e)

(* self == other, both BigInt.                                             *)
Eq(a, b) == IF Len(a) # Len(b) THEN FALSE ELSE EqLoop(a, b, 0, TRUE)

RECURSIVE GtLoopNoBreak(_, _, _, _)
(* __gt__'s scan leaving the loop only on a greater cell, not on a smaller *)
(* one.                                                                    *)
GtLoopNoBreak(a, b, i, gt) ==
    IF i < 0 THEN gt
    ELSE LET g == a[i + 1] > b[i + 1]
         IN  IF g THEN g ELSE GtLoopNoBreak(a, b, i - 1, g)

RECURSIVE GtLoop(_, _, _, _)
GtLoop(a, b, i, gt) ==
    IF i < 0 THEN gt
    ELSE LET d1 == a[i + 1]
             d2 == b[i + 1]
             nlt == d1 >= d2
             g == d1 > d2
         IN  IF g \/ ~nlt THEN g ELSE GtLoop(a, b, i - 1, g)

(* self > other, both BigInt.                                              *)
Gt(a, b) == IF Len(a) # Len(b) THEN Len(a) > Len(b) ELSE GtLoop(a, b, Len(a) - 1, FALSE)

(* self < other: BigInt defines no __lt__, so Python evaluates the         *)
(* reflected other > self.                                                 *)
Lt(a, b) == Gt(b, a)

(* self >= other: not self < other.                                        *)
Ge(a, b) == ~Lt(a, b)

(* self <= other: not self > other.                                        *)
Le(a, b) == ~Gt(a, b)

-----------------------------------------------------------------------------
(* BigInt: arithmetic and conversion.                                      *)

RECURSIVE AddLoopShort(_, _, _, _)
(* __add__ iterating over min(len(self), len(other)) positions.            *)
AddLoopShort(a, b, i, acc) ==
    IF i >= Min(Len(a), Len(b)) THEN acc
    ELSE AddLoopShort(a, b, i + 1, AddAt(acc, i, a[i + 1] + b[i + 1]))

RECURSIVE AddLoop(_, _, _, _)
AddLoop(a, b, i, acc) ==
    IF i >= Max(Len(a), Len(b)) THEN acc
    ELSE LET da == IF i < Len(a) THEN a[i + 1] ELSE 0
             db == IF i < Len(b) THEN b[i + 1] ELSE 0
         IN  AddLoop(a, b, i + 1, AddAt(acc, i, da + db))

(* self + other.                                                           *)
Add(a, b) == AddLoop(a, b, 0, << >>)

RECURSIVE MulRowDropsCarry(_, _, _, _, _, _)
(* __mul__ without the deposit of the row's last carry.                    *)
MulRowDropsCarry(a, b, j, i, carry, acc) ==
    IF i >= Len(a) THEN acc
    ELSE LET product == a[i + 1] * b[j + 1] + carry
         IN  MulRowDropsCarry(a, b, j, i + 1, product \div 10,
                              AddAt(acc, j + i, product % 10))

RECURSIVE MulRow(_, _, _, _, _, _)
(* The inner loop of row j from position i on, then the row's last carry.  *)
MulRow(a, b, j, i, carry, acc) ==
    IF i >= Len(a)
    THEN IF carry # 0 THEN AddAt(acc, j + Len(a), carry) ELSE acc
    ELSE LET product == a[i + 1] * b[j + 1] + carry
         IN  MulRow(a, b, j, i + 1, product \div 10, AddAt(acc, j + i, product % 10))

RECURSIVE MulLoop(_, _, _, _)
MulLoop(a, b, j, acc) ==
    IF j >= Len(b) THEN acc
    ELSE MulLoop(a, b, j + 1, MulRow(a, b, j, 0, 0, acc))

(* self * other.                                                           *)
Mul(a, b) == MulLoop(a, b, 0, << >>)

RECURSIVE Pow10(_)
Pow10(n) == IF n = 0 THEN 1 ELSE 10 * Pow10(n - 1)

RECURSIVE ToIntegerLoop(_, _, _)
ToIntegerLoop(digits, i, val) ==
    IF i >= Len(digits) THEN val
    ELSE ToIntegerLoop(digits, i + 1, val + digits[i + 1] * Pow10(i))

(* int(self).                                                              *)
ToInteger(digits) == ToIntegerLoop(digits, 0, 0)

-----------------------------------------------------------------------------
(* Properties of one digit store.                                          *)

CellsInRange(digits) == \A k \in 1..Len(digits) : digits[k] \in 0..9
Canonical(digits) == Len(digits) > 0 => digits[Len(digits)] # 0

-----------------------------------------------------------------------------
(* The variables a specification does not use stay at these values.       *)

storeVars == <<self, before, args, steps>>
arithVars == <<x, y, result>>
solverVars == <<heap, stack, ret, loop, out>>

StoreIdle == self = << >> /\ before = << >> /\ args = << >> /\ steps = 0
ArithIdle == x = << >> /\ y = << >> /\ result = << >>
SolverIdle == heap = << >> /\ stack = << >> /\ ret = << >> /\ loop = << >> /\ out = << >>

DigitCounts == {None} \cup {Some(n) : n \in 0..MaxDigitCount}

-----------------------------------------------------------------------------
(* SpecCtor: one constructor call.                                         *)

InitCtor == pc = "new" /\ StoreIdle /\ ArithIdle /\ SolverIdle

(* BigInt(value=value) and BigInt(value=value, digit_count=digit_count).   *)
ConstructFromInteger ==
    /\ pc = "new"
    /\ \E value \in 0..MaxValue, digit_count \in DigitCounts :
          /\ self' = FromInteger(value, digit_count)
          /\ args' = [value |-> value, digit_count |-> digit_count]
    /\ pc' = "from_integer"
    /\ UNCHANGED <<before, steps, arithVars, solverVars>>

(* BigInt(digit_count=digit_count): the random fill.                       *)
ConstructRandom ==
    /\ pc = "new"
    /\ \E digit_count \in 0..MaxRandomCount :
          /\ \E digits \in RandomFills(digit_count) :
                self' = [k \in 1..digit_count |-> digits[k]]
          /\ args' = [digit_count |-> Some(digit_count)]
    /\ pc' = "random"
    /\ UNCHANGED <<before, steps, arithVars, solverVars>>

NextCtor == ConstructFromInteger \/ ConstructRandom

SpecCtor == InitCtor /\ [][NextCtor]_vars

-----------------------------------------------------------------------------
(* SpecCarry: a canonical value, then calls of add_at, + and * on it.      *)

InitCarry ==
    /\ pc = "init"
    /\ \E value \in 0..MaxInitValue : self = FromInteger(value, None)
    /\ before = self
    /\ args = << >>
    /\ steps = 0
    /\ ArithIdle /\ SolverIdle

(* self.add_at(idx, value)                                                 *)
AddAtStep ==
    /\ steps < MaxSteps
    /\ \E idx \in 0..MaxIdx, value \in 0..MaxAmount :
          /\ self' = AddAt(self, idx, value)
          /\ args' = [idx |-> idx, value |-> value]
    /\ before' = self
    /\ pc' = "add_at"
    /\ steps' = steps + 1
    /\ UNCHANGED <<arithVars, solverVars>>

(* self = self + BigInt(value=other)                                       *)
AddStep ==
    /\ steps < MaxSteps
    /\ \E other \in 0..MaxOperand :
          /\ self' = Add(self, FromInteger(other, None))
          /\ args' = [other |-> other]
    /\ before' = self
    /\ pc' = "add"
    /\ steps' = steps + 1
    /\ UNCHANGED <<arithVars, solverVars>>

(* self = self * BigInt(value=other)                                       *)
MulStep ==
    /\ steps < MaxSteps
    /\ \E other \in 0..MaxOperand :
          /\ self' = Mul(self, FromInteger(other, None))
          /\ args' = [other |-> other]
    /\ before' = self
    /\ pc' = "mul"
    /\ steps' = steps + 1
    /\ UNCHANGED <<arithVars, solverVars>>

NextCarry == AddAtStep \/ AddStep \/ MulStep

SpecCarry == InitCarry /\ [][NextCarry]_vars

-----------------------------------------------------------------------------
(* Claims about the constructors and the carry engine.                     *)

(* C5: every value a constructor produces is canonical: it has length 0 or *)
(* a non-zero most significant cell.                                       *)
C5_ConstructedCanonical ==
    pc \in {"from_integer", "random"} => Canonical(self)

(* C8: after any sequence of add_at, + and * calls from a canonical value, *)
(* every cell is in 0..9 and the most significant cell is non-zero.        *)
C8_CarryKeepsCanonical == CellsInRange(self) /\ Canonical(self)

(* C8's case: add_at deposits a multiple of 10 into a cell it has just     *)
(* grown, and the carry extends the store by one more cell.                *)
C8_Witness ==
    /\ pc = "add_at"
    /\ args.value = 10
    /\ args.idx >= Len(before)
    /\ Len(self) = args.idx + 2
    /\ self[args.idx + 1] = 0

(* C9: add_at(idx, value) adds value * 10^idx to the represented integer,  *)
(* leaves the cells below idx as they were, and with value = 0 leaves the  *)
(* digit store as it was.                                                  *)
C9_AddAtAddsShifted ==
    pc = "add_at" =>
        /\ ToInteger(self) = ToInteger(before) + args.value * Pow10(args.idx)
        /\ \A k \in 1..Min(args.idx, Len(before)) : self[k] = before[k]
        /\ Len(self) >= Len(before)
        /\ args.value = 0 => self = before

(* C9's case: an amount above 9 added beyond the current length.           *)
C9_Witness ==
    /\ pc = "add_at"
    /\ args.value > 9
    /\ Len(before) > 0
    /\ args.idx > Len(before)
    /\ Len(self) = args.idx + 2

-----------------------------------------------------------------------------
(* SpecArith: two constructed operands, then one arithmetic call.          *)

zero == FromInteger(0, None)
one == FromInteger(1, None)

InitArith ==
    /\ pc = "input"
    /\ \E a \in 0..MaxValue, b \in 0..MaxValue, digit_count \in DigitCounts :
          /\ x = FromInteger(a, digit_count)
          /\ y = FromInteger(b, None)
          /\ args = [a |-> a, b |-> b, digit_count |-> digit_count]
    /\ result = << >>
    /\ self = << >> /\ before = << >> /\ steps = 0
    /\ SolverIdle

(* result = x + y                                                          *)
ComputeSum ==
    /\ pc = "input"
    /\ result' = Add(x, y)
    /\ pc' = "add"
    /\ UNCHANGED <<x, y, storeVars, solverVars>>

(* result = x * y                                                          *)
ComputeProduct ==
    /\ pc = "input"
    /\ result' = Mul(x, y)
    /\ pc' = "mul"
    /\ UNCHANGED <<x, y, storeVars, solverVars>>

(* x + zero, x * zero and x * one                                          *)
ComputeIdentities ==
    /\ pc = "input"
    /\ result' = [add_zero |-> Add(x, zero),
                  mul_zero |-> Mul(x, zero),
                  mul_one |-> Mul(x, one)]
    /\ pc' = "identities"
    /\ UNCHANGED <<x, y, storeVars, solverVars>>

NextArith == ComputeSum \/ ComputeProduct \/ ComputeIdentities

SpecArith == InitArith /\ [][NextArith]_vars

-----------------------------------------------------------------------------
(* SpecCompare: two digit stores, then ==, > and < on them.                *)

CmpValues == UNION { [1..n -> CmpDigits] : n \in 0..MaxCmpLen }

InitCompare ==
    /\ pc = "input"
    /\ x \in CmpValues
    /\ y \in CmpValues
    /\ result = << >>
    /\ StoreIdle /\ SolverIdle

(* x == y, x > y and x < y                                                 *)
Compare ==
    /\ pc = "input"
    /\ result' = [eq |-> Eq(x, y), gt |-> Gt(x, y), lt |-> Lt(x, y)]
    /\ pc' = "compare"
    /\ UNCHANGED <<x, y, storeVars, solverVars>>

NextCompare == Compare

SpecCompare == InitCompare /\ [][NextCompare]_vars

-----------------------------------------------------------------------------
(* Claims about arithmetic and comparison.                                 *)

(* C3: to_integer(from_integer(a) * from_integer(b)) = a * b.              *)
C3_MulIsProduct ==
    (pc = "mul" /\ args.digit_count = None) => ToInteger(result) = args.a * args.b

(* C3's case: an operand with an interior zero digit times one with a      *)
(* trailing zero digit.                                                    *)
C3_Witness ==
    /\ pc = "mul"
    /\ args.digit_count = None
    /\ Len(x) = 3 /\ x[2] = 0 /\ x[1] = 9
    /\ Len(y) = 2 /\ y[1] = 0 /\ y[2] = 9
    /\ Len(result) = 4

(* C4: to_integer(from_integer(a) + from_integer(b)) = a + b.              *)
C4_AddIsSum ==
    (pc = "add" /\ args.digit_count = None) => ToInteger(result) = args.a + args.b

(* C4's case: operands of different lengths whose sum carries into a new   *)
(* most significant cell.                                                  *)
C4_Witness ==
    /\ pc = "add"
    /\ args.digit_count = None
    /\ Len(x) = 1 /\ Len(y) = 2
    /\ Len(result) = 3

(* C6: exactly one of x < y, x == y, x > y holds.                          *)
C6_ExactlyOneOrder ==
    pc = "compare" =>
        /\ result.lt \/ result.eq \/ result.gt
        /\ ~(result.lt /\ result.eq)
        /\ ~(result.lt /\ result.gt)
        /\ ~(result.eq /\ result.gt)

(* C6's case: equal lengths, the most significant cell equal, the values   *)
(* told apart by a lower cell against the order of the lowest one.         *)
C6_Witness ==
    /\ pc = "compare"
    /\ Len(x) = 3 /\ Len(y) = 3
    /\ x[3] = y[3] /\ x[2] < y[2] /\ x[1] > y[1]
    /\ result.lt /\ ~result.eq /\ ~result.gt

(* C7: x + zero == x, x * zero == zero and x * one == x for every          *)
(* constructed x.                                                          *)
C7_Identities ==
    pc = "identities" =>
        /\ Eq(result.add_zero, x)
        /\ Eq(result.mul_zero, zero)
        /\ Eq(result.mul_one, x)

-----------------------------------------------------------------------------
(* The solver: objects and digit swaps.                                    *)
(*                                                                         *)
(* BigInt objects live in heap, a sequence of digit stores: an object's id *)
(* is its index, a new object is appended.  Two names alias when they hold *)
(* the same id.                                                            *)

IdA == 1    \* the object bound to a in __main__
IdB == 2    \* the object bound to b in __main__

(* clone returning the object itself instead of a copy.                    *)
CloneAlias(h, id) == [heap |-> h, id |-> id]

(* obj.clone(): the heap with the copy appended, and the copy's id.        *)
Clone(h, id) == [heap |-> Append(h, h[id]), id |-> Len(h) + 1]

(* The cell of a Python list index, which counts from the end when         *)
(* negative.                                                               *)
Pos(digits, i) == IF i < 0 THEN Len(digits) + i + 1 ELSE i + 1

(* p.digits[i], q.digits[i] = q.digits[i], p.digits[i]                     *)
SwapDigits(h, p, q, i) ==
    LET k == Pos(h[p], i)
    IN  [h EXCEPT ![p][k] = h[q][k], ![q][k] = h[p][k]]

(* calc_max_product's iteration with found_diff set only when it swaps.    *)
MaxStepFlagOnSwap(h, c, d, i, found_diff) ==
    LET k == Pos(h[c], i)
        curr_diff == h[c][k] # h[d][k]
        swap == \/ ~found_diff /\ curr_diff /\ h[c][k] < h[d][k]
                \/ found_diff /\ h[c][k] > h[d][k]
        h2 == IF swap THEN SwapDigits(h, c, d, i) ELSE h
    IN  [heap |-> h2, found_diff |-> found_diff \/ swap]

(* One iteration of calc_max_product's loop: the heap and found_diff       *)
(* after it.                                                               *)
MaxStep(h, c, d, i, found_diff) ==
    LET k == Pos(h[c], i)
        curr_diff == h[c][k] # h[d][k]
        swap == \/ ~found_diff /\ curr_diff /\ h[c][k] < h[d][k]
                \/ found_diff /\ h[c][k] > h[d][k]
        h2 == IF swap THEN SwapDigits(h, c, d, i) ELSE h
    IN  [heap |-> h2, found_diff |-> found_diff \/ h2[c][k] # h2[d][k]]

(* calc_min_product's iteration with the swap written as two assignments, *)
(* c.digits[i] = d.digits[i] then d.digits[i] = c.digits[i].               *)
MinStepOverwrite(h, c, d, i) ==
    LET k == Pos(h[c], i)
    IN  IF h[c][k] < h[d][k] THEN [h EXCEPT ![c][k] = h[d][k]] ELSE h

(* One iteration of calc_min_product's loop: the heap after it.            *)
MinStep(h, c, d, i) ==
    LET k == Pos(h[c], i)
    IN  IF h[c][k] < h[d][k] THEN SwapDigits(h, c, d, i) ELSE h

(* The base case of calc_extreme_products_brute: prod = a * b, then the    *)
(* tuple a.clone(), b.clone(), prod, a.clone(), b.clone(), prod.clone().   *)
BruteLeaf(h) ==
    LET h1 == Append(h, Mul(h[IdA], h[IdB]))
        prod == Len(h1)
        c1 == Clone(h1, IdA)
        d1 == Clone(c1.heap, IdB)
        c2 == Clone(d1.heap, IdA)
        d2 == Clone(c2.heap, IdB)
        p2 == Clone(d2.heap, prod)
    IN  [heap |-> p2.heap, ret |-> <<c1.id, d1.id, prod, c2.id, d2.id, p2.id>>]

(* The extreme values of two returned tuples: the maximum from r1 if       *)
(* p1_max >= p2_max, the minimum from r1 if p1_min <= p2_min.              *)
ChooseExtremes(h, r1, r2) ==
    LET max == IF Ge(h[r1[3]], h[r2[3]]) THEN SubSeq(r1, 1, 3) ELSE SubSeq(r2, 1, 3)
        min == IF Le(h[r1[6]], h[r2[6]]) THEN SubSeq(r1, 4, 6) ELSE SubSeq(r2, 4, 6)
    IN  max \o min

-----------------------------------------------------------------------------
(* SpecSolver: __main__ on two equal-length values: calc_max_product,      *)
(* calc_min_product, then calc_extreme_products_brute.                     *)

InitSolver ==
    /\ pc = "call_max"
    /\ \E a \in 0..MaxSolverValue, b \in 0..MaxSolverValue :
          /\ Len(FromInteger(a, None)) = Len(FromInteger(b, None))
          /\ heap = <<FromInteger(a, None), FromInteger(b, None)>>
          /\ args = [a |-> a, b |-> b]
    /\ stack = << >>
    /\ ret = << >>
    /\ loop = << >>
    /\ out = [max |-> << >>, min |-> << >>, brute |-> << >>]
    /\ self = << >> /\ before = << >> /\ steps = 0
    /\ ArithIdle

(* calc_max_product up to its loop: c = a.clone(), d = b.clone().          *)
MaxEnter ==
    /\ pc = "call_max"
    /\ LET c == Clone(heap, IdA)
           d == Clone(c.heap, IdB)
       IN  /\ heap' = d.heap
           /\ loop' = [c |-> c.id, d |-> d.id, i |-> -1, found_diff |-> FALSE]
    /\ pc' = "max_loop"
    /\ UNCHANGED <<self, before, args, steps, arithVars, stack, ret, out>>

(* One iteration of for i in range(-1, -len(a) - 1, -1).                    *)
MaxIterate ==
    /\ pc = "max_loop"
    /\ loop.i > -Len(heap[IdA]) - 1
    /\ LET s == MaxStep(heap, loop.c, loop.d, loop.i, loop.found_diff)
       IN  /\ heap' = s.heap
           /\ loop' = [loop EXCEPT !.i = loop.i - 1, !.found_diff = s.found_diff]
    /\ UNCHANGED <<pc, self, before, args, steps, arithVars, stack, ret, out>>

(* return c, d, c * d                                                      *)
MaxReturn ==
    /\ pc = "max_loop"
    /\ ~(loop.i > -Len(heap[IdA]) - 1)
    /\ heap' = Append(heap, Mul(heap[loop.c], heap[loop.d]))
    /\ out' = [out EXCEPT !.max = <<loop.c, loop.d, Len(heap) + 1>>]
    /\ loop' = << >>
    /\ pc' = "call_min"
    /\ UNCHANGED <<self, before, args, steps, arithVars, stack, ret>>

(* calc_min_product up to its loop.                                        *)
MinEnter ==
    /\ pc = "call_min"
    /\ LET c == Clone(heap, IdA)
           d == Clone(c.heap, IdB)
       IN  /\ heap' = d.heap
           /\ loop' = [c |-> c.id, d |-> d.id, i |-> -1]
    /\ pc' = "min_loop"
    /\ UNCHANGED <<self, before, args, steps, arithVars, stack, ret, out>>

MinIterate ==
    /\ pc = "min_loop"
    /\ loop.i > -Len(heap[IdA]) - 1
    /\ heap' = MinStep(heap, loop.c, loop.d, loop.i)
    /\ loop' = [loop EXCEPT !.i = loop.i - 1]
    /\ UNCHANGED <<pc, self, before, args, steps, arithVars, stack, ret, out>>

MinReturn ==
    /\ pc = "min_loop"
    /\ ~(loop.i > -Len(heap[IdA]) - 1)
    /\ heap' = Append(heap, Mul(heap[loop.c], heap[loop.d]))
    /\ out' = [out EXCEPT !.min = <<loop.c, loop.d, Len(heap) + 1>>]
    /\ loop' = << >>
    /\ pc' = "call_brute"
    /\ UNCHANGED <<self, before, args, steps, arithVars, stack, ret>>

Frame(idx, stage, r1) == [idx |-> idx, stage |-> stage, r1 |-> r1]
Top == stack[Len(stack)]
Pop == SubSeq(stack, 1, Len(stack) - 1)

(* calc_extreme_products_brute(a, b): the outermost call, idx = 0.         *)
BruteCall ==
    /\ pc = "call_brute"
    /\ stack' = <<Frame(0, "enter", << >>)>>
    /\ pc' = "brute"
    /\ UNCHANGED <<self, before, args, steps, arithVars, heap, ret, loop, out>>

(* idx >= len(a): compute the product and return.                          *)
BruteBase ==
    /\ pc = "brute" /\ stack # << >>
    /\ Top.stage = "enter"
    /\ Top.idx >= Len(heap[IdA])
    /\ LET leaf == BruteLeaf(heap)
       IN  heap' = leaf.heap /\ ret' = leaf.ret
    /\ stack' = Pop
    /\ UNCHANGED <<pc, self, before, args, steps, arithVars, loop, out>>

(* The first recursive call, on the pair as it is.                         *)
BruteFirst ==
    /\ pc = "brute" /\ stack # << >>
    /\ Top.stage = "enter"
    /\ Top.idx < Len(heap[IdA])
    /\ stack' = Append([stack EXCEPT ![Len(stack)].stage = "first"],
                       Frame(Top.idx + 1, "enter", << >>))
    /\ UNCHANGED <<pc, self, before, args, steps, arithVars, heap, ret, loop, out>>

(* The first call has returned: swap the digits at idx, call again.        *)
BruteSecond ==
    /\ pc = "brute" /\ stack # << >>
    /\ Top.stage = "first"
    /\ heap' = SwapDigits(heap, IdA, IdB, Top.idx)
    /\ stack' = Append([stack EXCEPT ![Len(stack)] = Frame(Top.idx, "second", ret)],
                       Frame(Top.idx + 1, "enter", << >>))
    /\ UNCHANGED <<pc, self, before, args, steps, arithVars, ret, loop, out>>

(* The second call has returned: swap back, choose and return.             *)
BruteChoose ==
    /\ pc = "brute" /\ stack # << >>
    /\ Top.stage = "second"
    /\ heap' = SwapDigits(heap, IdA, IdB, Top.idx)
    /\ ret' = ChooseExtremes(heap, Top.r1, ret)
    /\ stack' = Pop
    /\ UNCHANGED <<pc, self, before, args, steps, arithVars, loop, out>>

(* The outermost call has returned to __main__.                            *)
BruteReturn ==
    /\ pc = "brute" /\ stack = << >>
    /\ out' = [out EXCEPT !.brute = ret]
    /\ pc' = "done"
    /\ UNCHANGED <<self, before, args, steps, arithVars, heap, stack, ret, loop>>

NextSolver ==
    \/ MaxEnter \/ MaxIterate \/ MaxReturn
    \/ MinEnter \/ MinIterate \/ MinReturn
    \/ BruteCall \/ BruteBase \/ BruteFirst \/ BruteSecond \/ BruteChoose \/ BruteReturn

SpecSolver == InitSolver /\ [][NextSolver]_vars

-----------------------------------------------------------------------------
(* Claims about the solver.                                                *)

A0 == FromInteger(args.a, None)
B0 == FromInteger(args.b, None)
Product(r) == heap[r[3]]

(* C1: the product calc_max_product returns equals, by ==, the maximum     *)
(* product p_max of calc_extreme_products_brute.                           *)
C1_GreedyMaxIsBruteMax ==
    pc = "done" => Eq(Product(out.max), heap[out.brute[3]])

(* C1's case: three-digit inputs where the greedy swaps below the first    *)
(* differing position and the product grows.                               *)
C1_Witness ==
    /\ pc = "done"
    /\ Len(A0) = 3
    /\ heap[out.max[1]][2] = A0[2]
    /\ heap[out.max[1]][1] = B0[1]
    /\ Gt(Product(out.max), Mul(A0, B0))
    /\ Eq(Product(out.max), heap[out.brute[3]])

(* C2: the product calc_min_product returns equals, by ==, the minimum     *)
(* product p_min of calc_extreme_products_brute.                           *)
C2_GreedyMinIsBruteMin ==
    pc = "done" => Eq(Product(out.min), heap[out.brute[6]])

(* C2's case: three-digit inputs where the greedy swaps and the product    *)
(* shrinks.                                                                *)
C2_Witness ==
    /\ pc = "done"
    /\ Len(A0) = 3
    /\ heap[out.min[1]] # A0
    /\ Gt(Mul(A0, B0), Product(out.min))
    /\ Eq(Product(out.min), heap[out.brute[6]])

SolverRunning ==
    pc \in {"call_max", "max_loop", "call_min", "min_loop", "call_brute", "brute", "done"}

(* The swap at position idx is in effect while a call of the brute force   *)
(* at idx is between its two swaps.                                        *)
SwappedAt(idx) ==
    \E f \in 1..Len(stack) : stack[f].idx = idx /\ stack[f].stage = "second"

Returned == {ret, out.max, out.min, out.brute}

(* C10: the solver's entry points leave a and b as they were: the greedy   *)
(* loops change only their clones, every swap of the brute force is undone *)
(* when the call that made it returns, at every depth, and no returned     *)
(* value is the object a or the object b.                                  *)
C10_InputsUnchanged ==
    SolverRunning =>
        /\ Len(heap[IdA]) = Len(A0)
        /\ Len(heap[IdB]) = Len(B0)
        /\ \A idx \in 0..(Len(A0) - 1) :
              IF SwappedAt(idx)
              THEN heap[IdA][idx + 1] = B0[idx + 1] /\ heap[IdB][idx + 1] = A0[idx + 1]
              ELSE heap[IdA][idx + 1] = A0[idx + 1] /\ heap[IdB][idx + 1] = B0[idx + 1]
        /\ stack = << >> => heap[IdA] = A0 /\ heap[IdB] = B0
        /\ \A r \in Returned : \A n \in 1..Len(r) : r[n] \notin {IdA, IdB}

(* C10's case: all three entry points have returned, the inputs differ at  *)
(* two positions, and both greedy results differ from a.                   *)
C10_Witness ==
    /\ pc = "done"
    /\ Len(A0) = 3
    /\ A0[1] # B0[1] /\ A0[2] # B0[2]
    /\ heap[out.max[1]] # A0
    /\ heap[out.min[1]] # A0
    /\ heap[IdA] = A0 /\ heap[IdB] = B0
    /\ Len(out.brute) = 6

=============================================================================
